---- MODULE Spec2Model ----
(***************************************************************************)
(* A model of three parts of musli:                                        *)
(*   - BufferedWriter   (crates/musli-common/src/buffered_writer.rs)       *)
(*   - the PHF generator (crates/musli-zerocopy/src/phf/generator.rs)      *)
(*   - the wire decoder (crates/musli-wire/src/de.rs)                      *)
(* Each part has its own specification (WriterSpec, PhfSpec, Spec); the    *)
(* variables of the other parts stay at their initial values.              *)
(***************************************************************************)
EXTENDS Integers, Sequences, FiniteSets, TLC

VARIABLES
    \* ---- BufferedWriter<N, W> ----
    buf,          \* FixedBytes<N>: the bytes held inline
    writer,       \* the inner writer W: every byte it has received, in order
    wphase,       \* "open" | "finished" (finish consumes the writer)
    written,      \* history: concatenation of the slices of the calls that returned Ok
    nextByte,     \* history: the next fresh byte stamp handed to a caller's slice
    innerFailed,  \* history: some call into the inner writer returned an error
    overflowed,   \* history: some write_bytes returned the overflow error
    ncalls,       \* history: number of write calls made
    wres,         \* the last call: what was called and what it returned
    \* ---- phf::generator ----
    entries,        \* the keys of the entries slice (access(entry)), in entry order
    displacements,  \* the displacements slice in the buffer: one (d1, d2) per bucket
    rngPos,         \* position of generate_hash's PRNG in its stream of candidate keys
    key,            \* the HashKey candidate of the running try_generate_hash
    hashes,         \* Hashes {g, f1, f2} of every entry under `key`
    buckets,        \* the buckets (entry indices), after sort_by_key
    bucketIdx,      \* the bucket the 'outer loop is at (1-based position in the zip)
    d1, d2,         \* the loop counters of the displacement search
    map,            \* slot -> entry index, UsizeMax where empty
    try_map,        \* slot -> generation that last stamped it
    generation,     \* the placement-attempt counter
    pc,             \* "draw" | "place" | "done"
    looked,         \* the last lookup made against the finished layout
    earlier,        \* what an earlier call of generate_hash over the same entries returned
    \* ---- WireDecoder<R, I, L> ----
    polI, polL,     \* the policies I (typed integers) and L (lengths and counts)
    value,          \* history: the value whose encoding the input holds
    input,          \* the bytes under the reader
    start, endp,    \* history: offsets of the first byte of the encoding and past its last
    reader,         \* the reader: pos, and the budgets of the Limit readers around it
    stack,          \* the sub-decoders in scope, innermost last
    hand,           \* a WireDecoder for one value is in hand
    last,           \* the last call: what was called and what it returned
    wstatus,        \* "run" | "error" (a call returned Err) | "idle"
    \* ---- int::tests ----
    rt_test,        \* which round trip runs: "continuation" | "zigzag" | "unzigzag" | "idle"
    rt_value,       \* the value the round trip is made for
    rt_out,         \* the Vec<u8> the continuation encodings are written to
    rt_data,        \* the slice reader over rt_out the decodes read from
    rt_got,         \* what the calls made so far returned, in call order
    rt_step         \* number of calls made so far

writerVars == <<buf, writer, wphase, written, nextByte, innerFailed, overflowed, ncalls, wres>>

phfVars == <<entries, displacements, rngPos, key, hashes, buckets, bucketIdx, d1, d2,
             map, try_map, generation, pc, looked, earlier>>

wireVars == <<polI, polL, value, input, start, endp, reader, stack, hand, last, wstatus>>

intVars == <<rt_test, rt_value, rt_out, rt_data, rt_got, rt_step>>

vars == <<writerVars, phfVars, wireVars, intVars>>

\* ------------------------------------------------------------------ helpers

Min(a, b) == IF a < b THEN a ELSE b

\* The sequence lo, lo+1, ..., lo+n-1
Stamps(lo, n) == [i \in 1..n |-> lo + i - 1]

\* ============================================================ BufferedWriter

\* Capacity of the inline buffer (the const generic N)
N == 3
\* Number of write calls explored
MaxCalls == 4

\* FixedBytes::remaining
Remaining(b) == N - Len(b)

\* FixedBytes::write_bytes: appends the whole slice, or fails and appends nothing
FixedBytesFits(b, bytes) == Len(bytes) <= Remaining(b)

\* write_bytes, lines 72-75, the flush that succeeded, with the clear left out
FlushNoClear(b, w) == [buf |-> b, writer |-> w \o b]

\* write_bytes, lines 72-75, the flush that succeeded, without the write to the inner writer
FlushDropped(b, w) == [buf |-> <<>>, writer |-> w]

\* write_bytes, lines 72-75, when the inner writer accepted the flush:
\* the inner writer gets the buffer's bytes and the buffer is cleared
Flush(b, w) == [buf |-> <<>>, writer |-> w \o b]

\* An inner write of `bytes` that failed: the inner writer kept some prefix of them
InnerFailure(w, bytes, k) == w \o SubSeq(bytes, 1, k)

NoCall == [op |-> "none", res |-> "none", len |-> 0, flushed |-> FALSE,
           bufBefore |-> <<>>, writerBefore |-> <<>>]

WriterIdle ==
    /\ buf = <<>>
    /\ writer = <<>>
    /\ wphase = "open"
    /\ written = <<>>
    /\ nextByte = 1
    /\ innerFailed = FALSE
    /\ overflowed = FALSE
    /\ ncalls = 0
    /\ wres = NoCall

\* The body of BufferedWriter::write_bytes for a slice of `len` fresh bytes;
\* innerOk and kept decide what the inner writer does if it is called.
WriteBytesBody(op, len, innerOk, kept) ==
    LET bytes == Stamps(nextByte, len)
        call  == [op |-> op, len |-> len, bufBefore |-> buf, writerBefore |-> writer]
    IN  /\ nextByte' = nextByte + len
        /\ ncalls' = ncalls + 1
        /\ UNCHANGED wphase
        /\ IF Remaining(buf) < len
           THEN IF innerOk
                THEN LET f == Flush(buf, writer)
                     IN  /\ writer' = f.writer
                         /\ innerFailed' = innerFailed
                         /\ IF FixedBytesFits(f.buf, bytes)
                            THEN /\ buf' = f.buf \o bytes
                                 /\ written' = written \o bytes
                                 /\ overflowed' = overflowed
                                 /\ wres' = call @@ [res |-> "ok", flushed |-> TRUE]
                            ELSE /\ buf' = f.buf
                                 /\ written' = written
                                 /\ overflowed' = TRUE
                                 /\ wres' = call @@ [res |-> "overflow", flushed |-> TRUE]
                ELSE /\ writer' = InnerFailure(writer, buf, Min(kept, Len(buf)))
                     /\ innerFailed' = TRUE
                     /\ UNCHANGED <<buf, written, overflowed>>
                     /\ wres' = call @@ [res |-> "inner_error", flushed |-> FALSE]
           ELSE /\ buf' = buf \o bytes
                /\ written' = written \o bytes
                /\ UNCHANGED <<writer, innerFailed, overflowed>>
                /\ wres' = call @@ [res |-> "ok", flushed |-> FALSE]

\* BufferedWriter::write_bytes
WriteBytes ==
    /\ UNCHANGED phfVars
    /\ UNCHANGED wireVars
    /\ UNCHANGED intVars
    /\ wphase = "open"
    /\ ncalls < MaxCalls
    /\ \E len \in 0..(N + 1), innerOk \in BOOLEAN, kept \in 0..N :
          /\ (innerOk => kept = 0)
          /\ WriteBytesBody("write_bytes", len, innerOk, kept)

\* BufferedWriter::write_buffer: write_bytes of the buffer's slice
WriteBuffer ==
    /\ UNCHANGED phfVars
    /\ UNCHANGED wireVars
    /\ UNCHANGED intVars
    /\ wphase = "open"
    /\ ncalls < MaxCalls
    /\ \E len \in 0..(N + 1), innerOk \in BOOLEAN, kept \in 0..N :
          /\ (innerOk => kept = 0)
          /\ WriteBytesBody("write_buffer", len, innerOk, kept)

\* BufferedWriter::finish
Finish ==
    /\ UNCHANGED phfVars
    /\ UNCHANGED wireVars
    /\ UNCHANGED intVars
    /\ wphase = "open"
    /\ wphase' = "finished"
    /\ UNCHANGED <<buf, written, nextByte, overflowed, ncalls>>
    /\ \E innerOk \in BOOLEAN, kept \in 0..N :
          /\ (innerOk => kept = 0)
          /\ IF buf # <<>>
             THEN IF innerOk
                  THEN /\ writer' = writer \o buf
                       /\ innerFailed' = innerFailed
                       /\ wres' = [op |-> "finish", res |-> "ok", len |-> 0, flushed |-> TRUE,
                                   bufBefore |-> buf, writerBefore |-> writer]
                  ELSE /\ writer' = InnerFailure(writer, buf, Min(kept, Len(buf)))
                       /\ innerFailed' = TRUE
                       /\ wres' = [op |-> "finish", res |-> "inner_error", len |-> 0,
                                   flushed |-> FALSE,
                                   bufBefore |-> buf, writerBefore |-> writer]
             ELSE /\ innerOk /\ kept = 0
                  /\ UNCHANGED <<writer, innerFailed>>
                  /\ wres' = [op |-> "finish", res |-> "ok", len |-> 0, flushed |-> FALSE,
                              bufBefore |-> buf, writerBefore |-> writer]

WriterNext == WriteBytes \/ WriteBuffer \/ Finish

\* ============================================================ phf::generator

\* DEFAULT_LAMBDA
DEFAULT_LAMBDA == 5
\* usize::MAX, the empty-slot marker of `map` (a value no entry index takes)
UsizeMax == -1

\* Largest key of the key domain 0..MaxKey
MaxKey == 7
\* Largest number of entries
MaxEntries == 6
\* Period of the modelled PRNG stream (the stream itself never ends)
SeedPeriod == 3

\* displacements_len
displacements_len(len) == (len + DEFAULT_LAMBDA - 1) \div DEFAULT_LAMBDA

RECURSIVE Xor(_, _)
\* Bitwise exclusive or of two naturals
Xor(a, b) ==
    IF a = 0 /\ b = 0 THEN 0
    ELSE (((a % 2) + (b % 2)) % 2) + 2 * Xor(a \div 2, b \div 2)

\* hashing::displace, as a wrapping u32 sum; the operands of the model stay far
\* below 2^32, so the sum never wraps here
displace(f1, f2, dd1, dd2) == Xor(dd1, f1) + Xor(dd2, f2)

\* hashing::hash: Hashes {g, f1, f2} of a key under a HashKey; a small mixing
\* function stands for the keyed hash. Equal keys hash equal under every HashKey.
hash(k, hk) ==
    [g  |-> ((k * hk) + (k \div 3)) % 4,
     f1 |-> (k * (hk + 2)) % 8,
     f2 |-> ((k \div 2) + hk) % 8]

\* FIXED_SEED
FIXED_SEED == 1234567890

\* SmallRng::seed_from_u64: the place in the modelled stream of candidate keys at
\* which a generator made from seed starts; a function of the seed alone
seed_from_u64(seed) == seed % SeedPeriod

\* A stream of candidate keys that differs from one call of generate_hash to the
\* next, as that of a generator seeded from entropy would
RngKeyPerCall(p) == p + 1 + (IF earlier.valid THEN 1 ELSE 0)

\* The candidate HashKey the PRNG yields at position p of its stream
\* (SmallRng::seed_from_u64(FIXED_SEED).sample_iter(Standard))
RngKey(p) == p + 1

\* try_generate_hash lines 63-78: the hashes of all entries
HashesOf(es, hk) == [n \in 1..Len(es) |-> hash(es[n], hk)]

\* try_generate_hash lines 80-85: bucket `to` (0-based) holds, in entry order, the
\* 0-based indices of the entries whose g % buckets.len() is `to`
BucketOf(hs, nbuckets, to) ==
    LET idx == [n \in 1..Len(hs) |-> n - 1]
        In(i) == hs[i + 1].g % nbuckets = to
    IN  SelectSeq(idx, In)

Partition(hs, nbuckets) == [b \in 1..nbuckets |-> BucketOf(hs, nbuckets, b - 1)]

\* Insert bucket x into the sorted sequence s behind every bucket that is not longer
InsertByLen(s, x) ==
    LET notLonger == {i \in 1..Len(s) : Len(s[i]) <= Len(x)}
        at == IF notLonger = {} THEN 0
              ELSE CHOOSE i \in notLonger : \A j \in notLonger : j <= i
    IN  SubSeq(s, 1, at) \o <<x>> \o SubSeq(s, at + 1, Len(s))

RECURSIVE SortByLen(_)
\* try_generate_hash line 87: buckets.sort_by_key(|a| a.len()), a stable sort
SortByLen(s) ==
    IF s = <<>> THEN <<>>
    ELSE InsertByLen(SortByLen(SubSeq(s, 1, Len(s) - 1)), s[Len(s)])

\* The check of line 118 without its second half: only the committed map is asked
SlotTakenMapOnly(m, tm, gen, index) == m[index + 1] # UsizeMax

\* line 118 with the check of `map` left out
SlotTakenTryMapOnly(m, tm, gen, index) == tm[index + 1] = gen

\* try_generate_hash line 118: the slot is taken by an earlier bucket, or by an
\* entry of this bucket in this attempt
SlotTaken(m, tm, gen, index) == m[index + 1] # UsizeMax \/ tm[index + 1] = gen

RECURSIVE PlaceKeys(_, _, _, _, _, _, _, _, _)
\* try_generate_hash lines 113-124: the keys of `bucket` from position i on, under
\* (dd1, dd2) and generation gen; returns whether all were placed, the try_map and
\* values_to_add as left by the loop
PlaceKeys(bucket, i, hs, m, tm, gen, dd1, dd2, vals) ==
    IF i > Len(bucket) THEN [ok |-> TRUE, try_map |-> tm, values_to_add |-> vals]
    ELSE LET k == bucket[i]
             index == displace(hs[k + 1].f1, hs[k + 1].f2, dd1, dd2) % Len(hs)
         IN  IF SlotTaken(m, tm, gen, index)
             THEN [ok |-> FALSE, try_map |-> tm, values_to_add |-> vals]
             ELSE PlaceKeys(bucket, i + 1, hs, m, [tm EXCEPT ![index + 1] = gen], gen,
                            dd1, dd2, Append(vals, <<index, k>>))

RECURSIVE Commit(_, _)
\* try_generate_hash lines 129-131: map[i] = key for every recorded value
Commit(m, vals) ==
    IF vals = <<>> THEN m
    ELSE Commit([m EXCEPT ![vals[1][1] + 1] = vals[1][2]], Tail(vals))

\* The displacement slot the committed pair is written to: d_ref of the zip of the
\* sorted buckets with the displacements (lines 107, 127)
DisplacementSlot(bi) == bi

NoLookup == [valid |-> FALSE, index |-> 0, found |-> 0]

\* The key sequences handed to the builder: increasing ones (distinct keys), and
\* ones whose last key is repeated
RECURSIVE IncreasingFrom(_, _)
IncreasingFrom(lo, n) ==
    IF n = 0 THEN {<<>>}
    ELSE UNION {{<<k>> \o t : t \in IncreasingFrom(k + 1, n - 1)} : k \in lo..MaxKey}

KeySequences ==
    LET inc == UNION {IncreasingFrom(0, n) : n \in 0..MaxEntries}
    IN  inc \cup {Append(s, s[Len(s)]) : s \in {t \in inc : Len(t) \in 1..(MaxEntries - 1)}}

\* No earlier call of generate_hash
NoRun == [valid |-> FALSE, key |-> 0, map |-> <<>>, displacements |-> <<>>]

PhfIdle ==
    /\ entries = <<>>
    /\ displacements = <<>>
    /\ rngPos = 0
    /\ key = 0
    /\ hashes = <<>>
    /\ buckets = <<>>
    /\ bucketIdx = 1
    /\ d1 = 0
    /\ d2 = 0
    /\ map = <<>>
    /\ try_map = <<>>
    /\ generation = 0
    /\ pc = "idle"
    /\ looked = NoLookup
    /\ earlier = NoRun

\* The state generate_hash is called in: entries and a displacements slice of
\* displacements_len(entries.len()) pairs in the buffer
PhfInit ==
    /\ entries \in KeySequences
    /\ displacements = [b \in 1..displacements_len(Len(entries)) |-> <<0, 0>>]
    /\ rngPos = seed_from_u64(FIXED_SEED)
    /\ key = 0
    /\ hashes = <<>>
    /\ buckets = <<>>
    /\ bucketIdx = 1
    /\ d1 = 0
    /\ d2 = 0
    /\ map = <<>>
    /\ try_map = <<>>
    /\ generation = 0
    /\ pc = "draw"
    /\ looked = NoLookup
    /\ earlier = NoRun

\* generate_hash line 41-42 and try_generate_hash lines 63-105: the next candidate
\* key is drawn and try_generate_hash sets up its hashes, buckets and maps
DrawKey ==
    /\ UNCHANGED writerVars
    /\ UNCHANGED wireVars
    /\ UNCHANGED intVars
    /\ pc = "draw"
    /\ LET hk == RngKey(rngPos)
           hs == HashesOf(entries, hk)
           bs == SortByLen(Partition(hs, Len(displacements)))
       IN  /\ key' = hk
           /\ rngPos' = (rngPos + 1) % SeedPeriod
           /\ hashes' = hs
           /\ buckets' = bs
           /\ map' = [i \in 1..Len(hs) |-> UsizeMax]
           /\ try_map' = [i \in 1..Len(hs) |-> 0]
           /\ generation' = 0
           /\ bucketIdx' = 1
           /\ d1' = 0
           /\ d2' = 0
           /\ pc' = IF Len(bs) = 0 THEN "done" ELSE "place"
    /\ UNCHANGED <<entries, displacements, looked, earlier>>

\* try_generate_hash lines 108-138: one pass of the 'inner loop body for the bucket
\* at bucketIdx under (d1, d2)
TryPlace ==
    /\ UNCHANGED writerVars
    /\ UNCHANGED wireVars
    /\ UNCHANGED intVars
    /\ pc = "place"
    /\ LET table_len == Len(hashes)
           gen == generation + 1
           r == PlaceKeys(buckets[bucketIdx], 1, hashes, map, try_map, gen, d1, d2, <<>>)
       IN  /\ generation' = gen
           /\ try_map' = r.try_map
           /\ IF r.ok
              THEN /\ displacements' =
                        [displacements EXCEPT ![DisplacementSlot(bucketIdx)] = <<d1, d2>>]
                   /\ map' = Commit(map, r.values_to_add)
                   /\ d1' = 0
                   /\ d2' = 0
                   /\ IF bucketIdx = Len(buckets)
                      THEN pc' = "done" /\ bucketIdx' = bucketIdx
                      ELSE pc' = "place" /\ bucketIdx' = bucketIdx + 1
              ELSE /\ UNCHANGED <<displacements, map, bucketIdx>>
                   /\ IF d2 + 1 < table_len
                      THEN d2' = d2 + 1 /\ d1' = d1 /\ pc' = "place"
                      ELSE IF d1 + 1 < table_len
                           THEN d2' = 0 /\ d1' = d1 + 1 /\ pc' = "place"
                           ELSE d2' = 0 /\ d1' = 0 /\ pc' = "draw"
    /\ UNCHANGED <<entries, rngPos, key, hashes, buckets, looked, earlier>>

\* The lookup of phf: the slot of a key under the stored HashKey and displacements
LookupSlot(k) ==
    LET h == hash(k, key)
        d == displacements[(h.g % Len(displacements)) + 1]
    IN  displace(h.f1, h.f2, d[1], d[2]) % Len(map)

\* A lookup of the key of entry n against the layout generate_hash returned
Lookup ==
    /\ UNCHANGED writerVars
    /\ UNCHANGED wireVars
    /\ UNCHANGED intVars
    /\ pc = "done"
    /\ \E n \in 1..Len(entries) :
          looked' = [valid |-> TRUE, index |-> n - 1, found |-> map[LookupSlot(entries[n]) + 1]]
    /\ UNCHANGED <<entries, displacements, rngPos, key, hashes, buckets, bucketIdx, d1, d2,
                   map, try_map, generation, pc, earlier>>

\* generate_hash lines 29-41 called once more over the same entries, key accessor and
\* displacements slice: what the first call returned and wrote is kept for
\* comparison, the slice keeps the pairs the first call wrote, and the call makes
\* a new SmallRng from FIXED_SEED
generate_hash_again ==
    /\ UNCHANGED writerVars
    /\ UNCHANGED wireVars
    /\ UNCHANGED intVars
    /\ pc = "done"
    /\ ~earlier.valid
    /\ earlier' = [valid |-> TRUE, key |-> key, map |-> map, displacements |-> displacements]
    /\ rngPos' = seed_from_u64(FIXED_SEED)
    /\ key' = 0
    /\ hashes' = <<>>
    /\ buckets' = <<>>
    /\ bucketIdx' = 1
    /\ d1' = 0
    /\ d2' = 0
    /\ map' = <<>>
    /\ try_map' = <<>>
    /\ generation' = 0
    /\ pc' = "draw"
    /\ looked' = NoLookup
    /\ UNCHANGED <<entries, displacements>>

PhfNext == DrawKey \/ TryPlace \/ Lookup \/ generate_hash_again

\* ============================================================ wire format

\* ---- Tag: kind in the high 2 bits, data in the low 6 (spec 3.1, 6.1)
KindByte == 0
KindPrefix == 1
KindSequence == 2
KindContinuation == 3
\* The data value that says "the value or length follows"
DATA_MASK == 63

\* Tag::new
TagNew(kind, data) == kind * 64 + data
\* Tag::empty: the tag with the sentinel as data
TagEmpty(kind) == kind * 64 + DATA_MASK
\* Tag::kind
TagKind(tag) == tag \div 64
\* Tag::data is Some
TagHasData(tag) == tag % 64 # DATA_MASK
\* Tag::data, when it is Some
TagData(tag) == tag % 64

\* ---- policies (spec 3.2, 6.3)
Policies == {"fixed_le", "fixed_be", "varint"}
\* Width of usize in bytes
UsizeBytes == 8

\* Values at or above Huge are kept as Huge: no read of that many bytes succeeds
Huge == 2^20
Sat(x) == IF x >= Huge THEN Huge ELSE x

\* ---- Reader: a position in the input and the budgets of the enclosing Limit readers
NoErr == [kind |-> "none", pos |-> 0]
Ok(r, v) == [ok |-> TRUE, r |-> r, v |-> v, e |-> NoErr]
Err(r, kind, pos) == [ok |-> FALSE, r |-> r, v |-> 0, e |-> [kind |-> kind, pos |-> pos]]

\* Whether n more bytes can be read: the input holds them and no Limit refuses
ReadOk(b, r, n) ==
    /\ r.pos + n <= Len(b)
    /\ \A i \in 1..Len(r.lim) : r.lim[i] >= n
Advance(r, n) == [pos |-> r.pos + n, lim |-> [i \in 1..Len(r.lim) |-> r.lim[i] - n]]

\* Reader::read_byte
ReadByte(b, r) ==
    IF ReadOk(b, r, 1) THEN Ok(Advance(r, 1), b[r.pos + 1]) ELSE Err(r, "truncated", r.pos)
\* Reader::skip
Skip(b, r, n) ==
    IF ReadOk(b, r, n) THEN Ok(Advance(r, n), 0) ELSE Err(r, "truncated", r.pos)
\* Reader::read_bytes / read_array
ReadBytes(b, r, n) ==
    IF ReadOk(b, r, n) THEN Ok(Advance(r, n), SubSeq(b, r.pos + 1, r.pos + n))
    ELSE Err(r, "truncated", r.pos)
\* Reader::limit
Limit(r, n) == [pos |-> r.pos, lim |-> Append(r.lim, n)]
\* A Limit reader given up: the reader under it stays where the reads left it
Unlimit(r) == [pos |-> r.pos, lim |-> SubSeq(r.lim, 1, Len(r.lim) - 1)]

\* ---- fixed-width integers
RECURSIVE FixedLE(_, _)
FixedLE(v, w) == IF w = 0 THEN <<>> ELSE <<v % 256>> \o FixedLE(v \div 256, w - 1)
Reverse(s) == [i \in 1..Len(s) |-> s[Len(s) + 1 - i]]
FixedEncode(p, v, w) == IF p = "fixed_le" THEN FixedLE(v, w) ELSE Reverse(FixedLE(v, w))
RECURSIVE FromBE(_, _)
FromBE(acc, s) == IF s = <<>> THEN acc ELSE FromBE(Sat(acc * 256 + s[1]), Tail(s))
FixedDecode(p, s) == IF p = "fixed_le" THEN FromBE(0, Reverse(s)) ELSE FromBE(0, s)

RECURSIVE ContinuationEncodeThrough128(_)
\* continuation::encode with the single-byte case taken up to and including 128
ContinuationEncodeThrough128(v) ==
    IF v <= 128 THEN <<v>> ELSE <<(v % 128) + 128>> \o ContinuationEncodeThrough128(v \div 128)

\* ---- continuation varint (spec 3.3, 4.3)
RECURSIVE ContinuationEncode(_)
ContinuationEncode(v) ==
    IF v < 128 THEN <<v>> ELSE <<(v % 128) + 128>> \o ContinuationEncode(v \div 128)

\* One 7-bit group shifted into place, kept below Huge
Group(g, shift) == IF g = 0 THEN 0 ELSE IF shift > 20 THEN Huge ELSE Sat(g * (2^shift))

RECURSIVE ContinuationFrom(_, _, _, _, _)
\* The groups after the first: shift is the shift of the group read last
ContinuationFrom(b, r, bits, shift, acc) ==
    LET sh == shift + 7
        x == ReadByte(b, r)
    IN  IF sh >= bits THEN Err(r, "overflow", r.pos)
        ELSE IF ~x.ok THEN x
        ELSE LET g == x.v % 128
                 more == x.v >= 128
             IN  IF sh + 7 > bits /\ g >= 2^(bits - sh) THEN Err(x.r, "overflow", x.r.pos)
                 ELSE IF ~more /\ g = 0 THEN Err(x.r, "overflow", x.r.pos)
                 ELSE IF more THEN ContinuationFrom(b, x.r, bits, sh, Sat(acc + Group(g, sh)))
                 ELSE Ok(x.r, Sat(acc + Group(g, sh)))

\* continuation::decode for an unsigned type of `bits` bits: at most ceil(bits/7)
\* groups, no overflow of the width, no trailing zero group
ContinuationDecode(b, r, bits) ==
    LET x == ReadByte(b, r)
    IN  IF ~x.ok THEN x
        ELSE IF x.v < 128 THEN Ok(x.r, x.v)
        ELSE ContinuationFrom(b, x.r, bits, 0, x.v % 128)

\* ---- zigzag on 8*w bits (spec 3.4)
Pow256(w) == IF w = 1 THEN 256 ELSE 65536
\* The two's complement pattern of a signed value of w bytes, and back
ToBits(n, w) == IF n < 0 THEN n + Pow256(w) ELSE n
FromBits(u, w) == IF u >= Pow256(w) \div 2 THEN u - Pow256(w) ELSE u
\* (n << 1) ^ (n >> (W - 1)) with a logical shift on the right: a negative n gives
\* the mask 1 where the arithmetic shift gives all ones
ZigZagEncodeLogicalShift(n, w) ==
    Xor((2 * ToBits(n, w)) % Pow256(w), IF n < 0 THEN 1 ELSE 0)
\* (n << 1) ^ (n >> (W - 1))
ZigZagEncode(n, w) ==
    Xor((2 * ToBits(n, w)) % Pow256(w), IF n < 0 THEN Pow256(w) - 1 ELSE 0)
\* (u >> 1) ^ -(u & 1)
ZigZagDecode(u, w) ==
    FromBits(Xor(u \div 2, IF u % 2 = 1 THEN Pow256(w) - 1 ELSE 0), w)

\* ---- L: lengths and counts
\* L::encode_usize
EncodeUsize(L, n) ==
    IF L = "varint" THEN ContinuationEncode(n) ELSE FixedEncode(L, n, UsizeBytes)
\* L::decode_usize
DecodeUsize(b, r, L) ==
    IF L = "varint" THEN ContinuationDecode(b, r, 8 * UsizeBytes)
    ELSE LET x == ReadBytes(b, r, UsizeBytes)
         IN  IF x.ok THEN Ok(x.r, FixedDecode(L, x.v)) ELSE x

\* ---- I: typed integers (spec 4.4)
\* I::encode_typed_unsigned
EncodeTypedUnsigned(I, w, v) ==
    IF I = "varint"
    THEN IF v < DATA_MASK THEN <<TagNew(KindContinuation, v)>>
         ELSE <<TagEmpty(KindContinuation)>> \o ContinuationEncode(v)
    ELSE <<TagEmpty(KindContinuation)>> \o FixedEncode(I, v, w)
\* I::encode_typed_signed
EncodeTypedSigned(I, w, n) ==
    IF I = "varint" THEN EncodeTypedUnsigned(I, w, ZigZagEncode(n, w))
    ELSE EncodeTypedUnsigned(I, w, ToBits(n, w))
\* I::decode_typed_unsigned
DecodeTypedUnsigned(b, r, I, w) ==
    LET t == ReadByte(b, r)
    IN  IF ~t.ok THEN t
        ELSE IF TagKind(t.v) # KindContinuation THEN Err(t.r, "expected", r.pos)
        ELSE IF I = "varint"
        THEN IF TagHasData(t.v) THEN Ok(t.r, TagData(t.v))
             ELSE ContinuationDecode(b, t.r, 8 * w)
        ELSE IF TagHasData(t.v) THEN Err(t.r, "expected", r.pos)
        ELSE LET x == ReadBytes(b, t.r, w)
             IN  IF x.ok THEN Ok(x.r, FixedDecode(I, x.v)) ELSE x
\* I::decode_typed_signed
DecodeTypedSigned(b, r, I, w) ==
    LET u == DecodeTypedUnsigned(b, r, I, w)
    IN  IF ~u.ok THEN u
        ELSE Ok(u.r, IF I = "varint" THEN ZigZagDecode(u.v, w) ELSE FromBits(u.v, w))

\* ---- values and their encoding (the wire encoder, spec 4.4)
U8(n) == [t |-> "u8", v |-> n, w |-> 1, x |-> <<>>]
I8(n) == [t |-> "i8", v |-> n, w |-> 1, x |-> <<>>]
Bool(n) == [t |-> "bool", v |-> n, w |-> 1, x |-> <<>>]
UInt(w, n) == [t |-> "uint", v |-> n, w |-> w, x |-> <<>>]
SInt(w, n) == [t |-> "int", v |-> n, w |-> w, x |-> <<>>]
Bytes(s) == [t |-> "bytes", v |-> 0, w |-> 0, x |-> s]
Str(s) == [t |-> "str", v |-> 0, w |-> 0, x |-> s]
SeqOf(s) == [t |-> "seq", v |-> 0, w |-> 0, x |-> s]
\* keys and values alternate in x
MapOf(s) == [t |-> "map", v |-> 0, w |-> 0, x |-> s]
StructOf(s) == [t |-> "struct", v |-> 0, w |-> 0, x |-> s]
\* x is empty (none) or holds the one value (some)
OptionOf(s) == [t |-> "option", v |-> 0, w |-> 0, x |-> s]
\* x holds the discriminant and the payload
VariantOf(d, p) == [t |-> "variant", v |-> 0, w |-> 0, x |-> <<d, p>>]

\* The tag of a length or count, and the length itself when it does not fit the tag
EncodeLen(kind, n, L) ==
    IF n < DATA_MASK THEN <<TagNew(kind, n)>> ELSE <<TagEmpty(kind)>> \o EncodeUsize(L, n)

RECURSIVE Encode(_, _, _), EncodeAll(_, _, _)
Encode(val, I, L) ==
    CASE val.t = "u8" ->
            IF val.v < DATA_MASK THEN <<TagNew(KindByte, val.v)>>
            ELSE <<TagEmpty(KindByte), val.v>>
      [] val.t = "i8" ->
            IF ToBits(val.v, 1) < DATA_MASK THEN <<TagNew(KindByte, ToBits(val.v, 1))>>
            ELSE <<TagEmpty(KindByte), ToBits(val.v, 1)>>
      [] val.t = "bool" -> <<TagNew(KindByte, val.v)>>
      [] val.t = "uint" -> EncodeTypedUnsigned(I, val.w, val.v)
      [] val.t = "int" -> EncodeTypedSigned(I, val.w, val.v)
      [] val.t \in {"bytes", "str"} -> EncodeLen(KindPrefix, Len(val.x), L) \o val.x
      [] OTHER -> EncodeLen(KindSequence, Len(val.x), L) \o EncodeAll(val.x, I, L)
EncodeAll(s, I, L) == IF s = <<>> THEN <<>> ELSE Encode(s[1], I, L) \o EncodeAll(Tail(s), I, L)

\* Bounds of the sessions
LongLen == 63
MaxPad == 1
MaxArray == 3

\* ============================================================ wire decoder

\* `if let Some(len) = tag.data() { len as usize } else { L::decode_usize(reader)? }`
\* (lines 58-62, 67-71, 92-96, 132-136, 213-217)
TagLen(b, r, tag, L) == IF TagHasData(tag) THEN Ok(r, TagData(tag)) ELSE DecodeUsize(b, r, L)

RECURSIVE SkipAny(_, _, _), SkipMany(_, _, _, _)
\* WireDecoder::skip_any
SkipAny(b, r, L) ==
    LET t == ReadByte(b, r)
    IN  IF ~t.ok THEN t
        ELSE CASE TagKind(t.v) = KindByte ->
                     IF TagHasData(t.v) THEN Ok(t.r, 0) ELSE Skip(b, t.r, 1)
               [] TagKind(t.v) = KindPrefix ->
                     LET len == TagLen(b, t.r, t.v, L)
                     IN  IF ~len.ok THEN len ELSE Skip(b, len.r, len.v)
               [] TagKind(t.v) = KindSequence ->
                     LET len == TagLen(b, t.r, t.v, L)
                     IN  IF ~len.ok THEN len ELSE SkipMany(b, len.r, L, len.v)
               [] OTHER ->
                     IF TagHasData(t.v) THEN Ok(t.r, 0)
                     ELSE LET c == ContinuationDecode(b, t.r, 128)
                          IN  IF c.ok THEN Ok(c.r, 0) ELSE c
\* skip_any lines 73-75: `for _ in 0..len { self.skip_any()?; }`
SkipMany(b, r, L, n) ==
    IF n = 0 THEN Ok(r, 0)
    ELSE LET s == SkipAny(b, r, L)
         IN  IF ~s.ok THEN s ELSE SkipMany(b, s.r, L, n - 1)

\* The position after the read reported as it is, nothing taken off
SaturatingSub1Kept(p) == p

\* pos.saturating_sub(1)
SaturatingSub1(p) == IF p = 0 THEN 0 ELSE p - 1

\* WireDecoder::decode_sequence_len
DecodeSequenceLen(b, r, L) ==
    LET t == ReadByte(b, r)
    IN  IF ~t.ok THEN t
        ELSE IF TagKind(t.v) = KindSequence THEN TagLen(b, t.r, t.v, L)
        ELSE Err(t.r, "expected_sequence", SaturatingSub1(t.r.pos))

\* shared_decode_pair_sequence line 109: RemainingWireDecoder::new(len / 2, self)
PairCount(len) == len \div 2

\* WireDecoder::shared_decode_pair_sequence: v is `remaining`
SharedDecodePairSequence(b, r, L) ==
    LET len == DecodeSequenceLen(b, r, L)
    IN  IF ~len.ok THEN len ELSE Ok(len.r, PairCount(len.v))

\* WireDecoder::shared_decode_sequence: v is `remaining`
SharedDecodeSequence(b, r, L) ==
    LET len == DecodeSequenceLen(b, r, L)
    IN  IF ~len.ok THEN len ELSE Ok(len.r, len.v)

\* WireDecoder::decode_prefix
DecodePrefix(b, r, L, pos) ==
    LET t == ReadByte(b, r)
    IN  IF ~t.ok THEN t
        ELSE IF TagKind(t.v) # KindPrefix THEN Err(t.r, "expected_prefix", pos)
        ELSE TagLen(b, t.r, t.v, L)

\* Decoder::decode_pack: v is the prefix length, r the Limit reader over the payload
DecodePack(b, r, L) ==
    LET len == DecodePrefix(b, r, L, r.pos)
    IN  IF ~len.ok THEN len ELSE Ok(Limit(len.r, len.v), len.v)

\* Decoder::decode_array::<n>
DecodeArray(b, r, L, n) ==
    LET len == DecodePrefix(b, r, L, r.pos)
    IN  IF ~len.ok THEN len
        ELSE IF len.v # n THEN Err(len.r, "bad_length", r.pos)
        ELSE ReadBytes(b, len.r, n)

\* decode_bytes lines 213-219 with the length taken from the tag's data field even
\* when that is the sentinel
DecodeBytesLenFromTag(b, r, tag, L) == Ok(r, TagData(tag))

\* decode_bytes lines 213-217: the length of the byte run
DecodeBytesLen(b, r, tag, L) == TagLen(b, r, tag, L)

\* Decoder::decode_bytes: v is the borrowed slice
DecodeBytes(b, r, L) ==
    LET t == ReadByte(b, r)
    IN  IF ~t.ok THEN t
        ELSE IF TagKind(t.v) # KindPrefix
        THEN Err(t.r, "expected_prefix", SaturatingSub1(t.r.pos))
        ELSE LET len == DecodeBytesLen(b, t.r, t.v, L)
             IN  IF ~len.ok THEN len ELSE ReadBytes(b, len.r, len.v)

\* core::str::from_utf8 on the strings of the model, which are ASCII: a byte of
\* 128 or more in them starts no valid sequence
Utf8Valid(s) == \A i \in 1..Len(s) : s[i] < 128

\* Decoder::decode_string
DecodeString(b, r, L) ==
    LET x == DecodeBytes(b, r, L)
    IN  IF ~x.ok THEN x
        ELSE IF Utf8Valid(x.v) THEN x ELSE Err(x.r, "custom", x.r.pos)

\* Decoder::decode_bool: v is 0 or 1
DecodeBool(b, r) ==
    LET t == ReadByte(b, r)
    IN  IF ~t.ok THEN t
        ELSE IF t.v = TagNew(KindByte, 0) THEN Ok(t.r, 0)
        ELSE IF t.v = TagNew(KindByte, 1) THEN Ok(t.r, 1)
        ELSE Err(t.r, "bad_boolean", SaturatingSub1(t.r.pos))

\* Decoder::decode_u8
DecodeU8(b, r) ==
    LET t == ReadByte(b, r)
    IN  IF ~t.ok THEN t
        ELSE IF TagKind(t.v) # KindByte
        THEN Err(t.r, "expected_byte", SaturatingSub1(t.r.pos))
        ELSE IF TagHasData(t.v) THEN Ok(t.r, TagData(t.v))
        ELSE ReadByte(b, t.r)

\* Decoder::decode_i8: decode_u8 as i8
DecodeI8(b, r) ==
    LET x == DecodeU8(b, r)
    IN  IF x.ok THEN Ok(x.r, FromBits(x.v, 1)) ELSE x

\* decode_option taking every Sequence tag other than the empty one for Some
DecodeOptionAnyCount(b, r) ==
    LET t == ReadByte(b, r)
    IN  IF ~t.ok THEN t
        ELSE IF t.v = TagNew(KindSequence, 0) THEN Ok(t.r, 0)
        ELSE IF TagKind(t.v) = KindSequence THEN Ok(t.r, 1)
        ELSE Err(t.r, "expected_option", SaturatingSub1(t.r.pos))

\* Decoder::decode_option: v is 0 for None and 1 for Some
DecodeOption(b, r) ==
    LET t == ReadByte(b, r)
    IN  IF ~t.ok THEN t
        ELSE IF t.v = TagNew(KindSequence, 0) THEN Ok(t.r, 0)
        ELSE IF t.v = TagNew(KindSequence, 1) THEN Ok(t.r, 1)
        ELSE Err(t.r, "expected_option", SaturatingSub1(t.r.pos))

\* Decoder::decode_variant
DecodeVariant(b, r) ==
    LET t == ReadByte(b, r)
    IN  IF ~t.ok THEN t
        ELSE IF t.v # TagNew(KindSequence, 2)
        THEN Err(t.r, "expected_sequence", SaturatingSub1(t.r.pos))
        ELSE Ok(t.r, 0)

\* decode_next with the decrement left out
TakeNextNoDecrement(remaining) ==
    IF remaining = 0 THEN [some |-> FALSE, remaining |-> 0]
    ELSE [some |-> TRUE, remaining |-> remaining]

\* SequenceDecoder::decode_next, MapDecoder::decode_entry, StructDecoder::decode_field:
\* None at remaining = 0, else one less remaining and a decoder for the element
TakeNext(remaining) ==
    IF remaining = 0 THEN [some |-> FALSE, remaining |-> 0]
    ELSE [some |-> TRUE, remaining |-> remaining - 1]

\* size_hint of the three sub-decoders
SizeHint(remaining) == remaining

\* ---- a typed decode of a whole value, as the derived Decode of its type makes it
Missing == [t |-> "missing", v |-> 0, w |-> 0, x |-> <<>>]
NoObs == [remaining |-> 0, read |-> 0, skipped |-> 0]

OkV(r, v, obs) == [ok |-> TRUE, r |-> r, v |-> v, e |-> NoErr, obs |-> obs]
Fail(x) == [ok |-> FALSE, r |-> x.r, v |-> Missing, e |-> x.e, obs |-> NoObs]

\* The position in the schema's field list of the field named by `name`, 0 if none
FieldIndex(sch, name) ==
    LET hits == {i \in 1..(Len(sch.x) \div 2) : sch.x[2 * i - 1].x = name}
    IN  IF hits = {} THEN 0 ELSE CHOOSE i \in hits : TRUE

\* F of the value of e, with e worked out once
Bind(e, F(_)) == CHOOSE out \in {F(x) : x \in {e}} : TRUE

RECURSIVE Decode(_, _, _, _, _), DecodeElems(_, _, _, _, _, _, _),
          DecodeFields(_, _, _, _, _, _, _, _), DecodeEntries(_, _, _, _, _, _, _, _)

\* The schema sch is a value whose shape (t, w, the shapes in x) says what to decode;
\* for a struct its x lists the fields the decoder knows, name then shape
Decode(sch, b, r, I, L) ==
    CASE sch.t = "u8" ->
            Bind(DecodeU8(b, r), LAMBDA x : IF x.ok THEN OkV(x.r, U8(x.v), NoObs) ELSE Fail(x))
      [] sch.t = "i8" ->
            Bind(DecodeI8(b, r), LAMBDA x : IF x.ok THEN OkV(x.r, I8(x.v), NoObs) ELSE Fail(x))
      [] sch.t = "bool" ->
            Bind(DecodeBool(b, r), LAMBDA x : IF x.ok THEN OkV(x.r, Bool(x.v), NoObs) ELSE Fail(x))
      [] sch.t = "uint" ->
            Bind(DecodeTypedUnsigned(b, r, I, sch.w),
                 LAMBDA x : IF x.ok THEN OkV(x.r, UInt(sch.w, x.v), NoObs) ELSE Fail(x))
      [] sch.t = "int" ->
            Bind(DecodeTypedSigned(b, r, I, sch.w),
                 LAMBDA x : IF x.ok THEN OkV(x.r, SInt(sch.w, x.v), NoObs) ELSE Fail(x))
      [] sch.t = "bytes" ->
            Bind(DecodeBytes(b, r, L),
                 LAMBDA x : IF x.ok THEN OkV(x.r, Bytes(x.v), NoObs) ELSE Fail(x))
      [] sch.t = "str" ->
            Bind(DecodeString(b, r, L),
                 LAMBDA x : IF x.ok THEN OkV(x.r, Str(x.v), NoObs) ELSE Fail(x))
      [] sch.t = "seq" ->
            \* decode_sequence; decode_next returns Some x.v times, then None
            Bind(SharedDecodeSequence(b, r, L),
                 LAMBDA x : IF ~x.ok THEN Fail(x)
                            ELSE IF x.v # Len(sch.x) THEN Fail(Err(x.r, "custom", x.r.pos))
                            ELSE Bind(DecodeElems(sch, b, x.r, I, L, 1, x.v),
                                      LAMBDA y : IF y.ok THEN OkV(y.r, SeqOf(y.v), NoObs)
                                                 ELSE y))
      [] sch.t = "map" ->
            Bind(SharedDecodePairSequence(b, r, L),
                 LAMBDA x : IF x.ok THEN DecodeEntries(sch, b, x.r, I, L, x.v, 1, <<>>)
                            ELSE Fail(x))
      [] sch.t = "struct" ->
            Bind(SharedDecodePairSequence(b, r, L),
                 LAMBDA x : IF x.ok
                            THEN DecodeFields(sch, b, x.r, I, L, x.v,
                                              [i \in 1..Len(sch.x) |-> Missing],
                                              [remaining |-> x.v, read |-> 0, skipped |-> 0])
                            ELSE Fail(x))
      [] sch.t = "option" ->
            Bind(DecodeOption(b, r),
                 LAMBDA x : IF ~x.ok THEN Fail(x)
                            ELSE IF x.v = 0 THEN OkV(x.r, OptionOf(<<>>), NoObs)
                            ELSE IF sch.x = <<>> THEN Fail(Err(x.r, "custom", x.r.pos))
                            ELSE Bind(Decode(sch.x[1], b, x.r, I, L),
                                      LAMBDA y : IF y.ok THEN OkV(y.r, OptionOf(<<y.v>>), NoObs)
                                                 ELSE y))
      [] OTHER ->
            \* "variant": decode_variant, decode_first, decode_second
            Bind(DecodeVariant(b, r),
                 LAMBDA x : IF ~x.ok THEN Fail(x)
                            ELSE Bind(Decode(sch.x[1], b, x.r, I, L),
                                      LAMBDA d : IF ~d.ok THEN d
                                                 ELSE Bind(Decode(sch.x[2], b, d.r, I, L),
                                                           LAMBDA p : IF p.ok
                                                                      THEN OkV(p.r, VariantOf(d.v, p.v), NoObs)
                                                                      ELSE p)))

\* The elements lo..hi of a sequence, each through the decoder decode_next hands
\* out, in order; v is the sequence of them. The run is split in halves so that a
\* long sequence is not a deep recursion
DecodeElems(sch, b, r, I, L, lo, hi) ==
    IF lo > hi THEN OkV(r, <<>>, NoObs)
    ELSE IF lo = hi
    THEN Bind(Decode(sch.x[lo], b, r, I, L),
              LAMBDA y : IF y.ok THEN OkV(y.r, <<y.v>>, NoObs) ELSE y)
    ELSE Bind(DecodeElems(sch, b, r, I, L, lo, (lo + hi) \div 2),
              LAMBDA left :
                  IF ~left.ok THEN left
                  ELSE Bind(DecodeElems(sch, b, left.r, I, L, ((lo + hi) \div 2) + 1, hi),
                            LAMBDA right : IF right.ok
                                           THEN OkV(right.r, left.v \o right.v, NoObs)
                                           ELSE right))

\* decode_entry until None, decode_key and decode_value by the i-th pair of shapes
DecodeEntries(sch, b, r, I, L, remaining, i, acc) ==
    IF ~TakeNext(remaining).some
    THEN IF 2 * i - 1 = Len(sch.x) + 1 THEN OkV(r, MapOf(acc), NoObs)
         ELSE Fail(Err(r, "custom", r.pos))
    ELSE IF 2 * i > Len(sch.x) THEN Fail(Err(r, "custom", r.pos))
    ELSE Bind(Decode(sch.x[2 * i - 1], b, r, I, L),
              LAMBDA k :
                  IF ~k.ok THEN k
                  ELSE Bind(Decode(sch.x[2 * i], b, k.r, I, L),
                            LAMBDA y :
                                IF y.ok
                                THEN DecodeEntries(sch, b, y.r, I, L,
                                                   TakeNext(remaining).remaining, i + 1,
                                                   acc \o <<k.v, y.v>>)
                                ELSE y))

\* decode_field until None: decode_first reads the field's name as a string; a known
\* field is read with decode_second, an unknown one passed over with skip_second
DecodeFields(sch, b, r, I, L, remaining, got, obs) ==
    IF ~TakeNext(remaining).some
    THEN IF \A j \in 1..Len(got) : got[j] # Missing
         THEN OkV(r, StructOf(got), obs)
         ELSE Fail(Err(r, "custom", r.pos))
    ELSE Bind(DecodeString(b, r, L),
              LAMBDA k :
                  IF ~k.ok THEN Fail(k)
                  ELSE IF FieldIndex(sch, k.v) = 0
                  THEN Bind(SkipAny(b, k.r, L),
                            LAMBDA s :
                                IF ~s.ok THEN Fail(s)
                                ELSE DecodeFields(sch, b, s.r, I, L,
                                                  TakeNext(remaining).remaining, got,
                                                  [obs EXCEPT !.skipped = @ + 1]))
                  ELSE Bind(Decode(sch.x[2 * FieldIndex(sch, k.v)], b, k.r, I, L),
                            LAMBDA y :
                                IF ~y.ok THEN y
                                ELSE DecodeFields(sch, b, y.r, I, L,
                                         TakeNext(remaining).remaining,
                                         [got EXCEPT ![2 * FieldIndex(sch, k.v) - 1] = Str(k.v),
                                                     ![2 * FieldIndex(sch, k.v)] = y.v],
                                         [obs EXCEPT !.read = @ + 1])))

\* ---- the decoding session
JaneDoe == <<74, 97, 110, 101, 32, 68, 111, 101>>
FieldName == <<110, 97, 109, 101>>
FieldAge == <<97, 103, 101>>
\* test_str.rs: the struct with a string field and a u32 field
Person == StructOf(<<Str(FieldName), Str(JaneDoe), Str(FieldAge), UInt(4, 42)>>)
\* {a: u32, b: u32, c: u32}
ABC == StructOf(<<Str(<<97>>), UInt(4, 1), Str(<<98>>), UInt(4, 2), Str(<<99>>), UInt(4, 3)>>)

\* n bytes of lower-case letters
Letters(n) == [i \in 1..n |-> 97 + (i % 26)]

\* The values a session may be given, encoded by the wire encoder
ValueList ==
    <<U8(0), U8(62), U8(63), U8(255), I8(-1), I8(-128), Bool(0), Bool(1),
      UInt(2, 0), UInt(2, 62), UInt(2, 63), UInt(2, 65535), UInt(4, 42), UInt(4, 300),
      UInt(4, 70000), UInt(8, 128), UInt(16, 16384),
      SInt(2, -1), SInt(2, 31), SInt(2, -32), SInt(2, -32768), SInt(2, 32767),
      Bytes(<<>>), Bytes(<<1, 2, 3>>), Str(JaneDoe),
      Bytes(Letters(LongLen - 1)), Str(Letters(LongLen)),
      SeqOf(<<>>), SeqOf(<<U8(1), U8(200), Bool(1)>>),
      SeqOf(<<SeqOf(<<U8(63), Bytes(<<9>>)>>), Str(<<97>>)>>),
      SeqOf(<<UInt(4, 42), UInt(2, 7)>>),
      SeqOf([i \in 1..LongLen |-> U8(i % 3)]),
      MapOf(<<U8(1), Str(<<97>>), U8(2), Str(<<98>>)>>),
      Person, ABC,
      OptionOf(<<>>), OptionOf(<<U8(7)>>), OptionOf(<<UInt(2, 300)>>),
      VariantOf(U8(1), Str(JaneDoe)), VariantOf(UInt(4, 1), SeqOf(<<>>))>>

\* Bytes of the input before the value and after it
Pad(n) == [i \in 1..n |-> 255]
Trail == <<1, 128>>

\* What a derived Decode may be asked for on the value: its own type, for a struct
\* also the older types that know only its first k fields, and some other types
SchemasOf(val) ==
    {val} \cup {U8(0), Bool(0), Str(<<>>), UInt(4, 0)}
          \cup IF val.t = "struct"
               THEN {StructOf(SubSeq(val.x, 1, 2 * k)) : k \in 0..(Len(val.x) \div 2)}
               ELSE {}

NoFrame == [kind |-> "none", remaining |-> 0, raw |-> 0, returned |-> 0, phase |-> "none", base |-> 0]
NoLast ==
    [op |-> "none", ok |-> TRUE, some |-> FALSE, before |-> 0, hint |-> 0, from |-> 0,
     base |-> 0, len |-> 0, top |-> FALSE, sch |-> Missing, val |-> Missing, n |-> 0,
     bytes |-> <<>>, e |-> NoErr, obs |-> NoObs]

WireIdle ==
    /\ polI = "varint" /\ polL = "varint" /\ value = Missing /\ input = <<>>
    /\ start = 0 /\ endp = 0 /\ reader = [pos |-> 0, lim |-> <<>>] /\ stack = <<>>
    /\ hand = FALSE /\ last = NoLast /\ wstatus = "idle"

\* WireDecoder::new over a reader standing at the first byte of an encoded value
WireInit ==
    /\ polI \in Policies /\ polL \in Policies
    /\ \E i \in 1..Len(ValueList), p \in 0..MaxPad :
          /\ value = ValueList[i]
          /\ start = p
          /\ input = Pad(p) \o Encode(ValueList[i], polI, polL) \o Trail
          /\ endp = p + Len(Encode(ValueList[i], polI, polL))
          /\ reader = [pos |-> p, lim |-> <<>>]
    /\ stack = <<>> /\ hand = TRUE /\ last = NoLast /\ wstatus = "run"

Top == IF stack = <<>> THEN NoFrame ELSE stack[Len(stack)]
Pop(s) == SubSeq(s, 1, Len(s) - 1)
SetTop(s, f) == [s EXCEPT ![Len(s)] = f]
\* The decoder in hand is the one WireInit made
AtTop == stack = <<>> /\ hand /\ reader.pos = start
Status(x) == IF x.ok THEN "run" ELSE "error"
Result(op, x) ==
    [NoLast EXCEPT !.op = op, !.ok = x.ok, !.from = reader.pos, !.top = AtTop, !.e = x.e]
WireFrame ==
    /\ UNCHANGED <<polI, polL, value, input, start, endp>>
    /\ UNCHANGED writerVars
    /\ UNCHANGED phfVars
    /\ UNCHANGED intVars
\* A decoder method that uses up the decoder in hand and hands out no other
Consume(x, l) ==
    /\ reader' = x.r /\ hand' = FALSE /\ stack' = stack
    /\ last' = l /\ wstatus' = Status(x)
    /\ WireFrame
\* A decoder method that uses up the decoder in hand and returns a sub-decoder
Enter(x, f, l) ==
    /\ reader' = x.r /\ hand' = FALSE
    /\ stack' = IF x.ok THEN Append(stack, f) ELSE stack
    /\ last' = l /\ wstatus' = Status(x)
    /\ WireFrame
Ready == wstatus = "run" /\ hand

skip_any ==
    /\ Ready
    /\ \E x \in {SkipAny(input, reader, polL)} : Consume(x, Result("skip_any", x))

\* Decode::decode of a derived type
decode ==
    /\ Ready /\ AtTop
    /\ \E sch \in SchemasOf(value) :
          \E x \in {Decode(sch, input, reader, polI, polL)} :
              Consume(x, [Result("decode", x) EXCEPT !.sch = sch, !.val = x.v, !.obs = x.obs])

decode_bool ==
    /\ Ready
    /\ \E x \in {DecodeBool(input, reader)} : Consume(x, [Result("decode_bool", x) EXCEPT !.n = x.v])

decode_u8 ==
    /\ Ready
    /\ \E x \in {DecodeU8(input, reader)} : Consume(x, [Result("decode_u8", x) EXCEPT !.n = x.v])

decode_i8 ==
    /\ Ready
    /\ \E x \in {DecodeI8(input, reader)} : Consume(x, [Result("decode_i8", x) EXCEPT !.n = x.v])

\* decode_u16, decode_u32, decode_u64, decode_u128
decode_unsigned ==
    /\ Ready
    /\ \E w \in {2, 4, 8, 16} :
          \E x \in {DecodeTypedUnsigned(input, reader, polI, w)} :
              Consume(x, [Result("decode_unsigned", x) EXCEPT !.n = x.v, !.len = w])

decode_i16 ==
    /\ Ready
    /\ \E x \in {DecodeTypedSigned(input, reader, polI, 2)} :
           Consume(x, [Result("decode_i16", x) EXCEPT !.n = x.v])

decode_bytes ==
    /\ Ready
    /\ \E x \in {DecodeBytes(input, reader, polL)} :
           Consume(x, [Result("decode_bytes", x) EXCEPT !.bytes = IF x.ok THEN x.v ELSE <<>>])

decode_string ==
    /\ Ready
    /\ \E x \in {DecodeString(input, reader, polL)} :
           Consume(x, [Result("decode_string", x) EXCEPT !.bytes = IF x.ok THEN x.v ELSE <<>>])

decode_array ==
    /\ Ready
    /\ \E n \in 0..MaxArray :
          \E x \in {DecodeArray(input, reader, polL, n)} :
              Consume(x, [Result("decode_array", x) EXCEPT !.bytes = IF x.ok THEN x.v ELSE <<>>,
                                                             !.len = n])

\* type Some = Self: on Some the decoder of the inner value is in hand
decode_option ==
    /\ Ready
    /\ \E x \in {DecodeOption(input, reader)} :
           /\ reader' = x.r /\ hand' = (x.ok /\ x.v = 1) /\ stack' = stack
           /\ last' = [Result("decode_option", x) EXCEPT !.some = (x.ok /\ x.v = 1)]
           /\ wstatus' = Status(x)
           /\ WireFrame

\* RemainingWireDecoder::new; raw is the count the tag gave
RemFrame(kind, remaining, raw) ==
    [kind |-> kind, remaining |-> remaining, raw |-> raw, returned |-> 0,
     phase |-> "entry", base |-> 0]
\* The count of the Sequence tag at the reader, 0 if there is none
RawCount == LET c == DecodeSequenceLen(input, reader, polL) IN IF c.ok THEN c.v ELSE 0

decode_sequence ==
    /\ Ready
    /\ \E x \in {SharedDecodeSequence(input, reader, polL)} :
           Enter(x, RemFrame("sequence", x.v, RawCount),
                 [Result("decode_sequence", x) EXCEPT !.n = x.v, !.len = RawCount])

decode_map ==
    /\ Ready
    /\ \E x \in {SharedDecodePairSequence(input, reader, polL)} :
           Enter(x, RemFrame("map", x.v, RawCount),
                 [Result("decode_map", x) EXCEPT !.n = x.v, !.len = RawCount])

decode_struct ==
    /\ Ready
    /\ \E x \in {SharedDecodePairSequence(input, reader, polL)} :
           Enter(x, RemFrame("struct", x.v, RawCount),
                 [Result("decode_struct", x) EXCEPT !.n = x.v, !.len = RawCount])

decode_tuple ==
    /\ Ready
    /\ \E x \in {SharedDecodePairSequence(input, reader, polL)} :
           Enter(x, RemFrame("tuple", x.v, RawCount),
                 [Result("decode_tuple", x) EXCEPT !.n = x.v, !.len = RawCount])

\* type Variant = Self: the decoder goes on as the PairDecoder of the variant
decode_variant ==
    /\ Ready
    /\ \E x \in {DecodeVariant(input, reader)} :
           Enter(x, [NoFrame EXCEPT !.kind = "variant", !.phase = "first"],
                 Result("decode_variant", x))

decode_pack ==
    /\ Ready
    /\ \E x \in {DecodePack(input, reader, polL)} :
           Enter(x, [NoFrame EXCEPT !.kind = "pack", !.raw = x.v, !.base = x.r.pos],
                 [Result("decode_pack", x) EXCEPT !.len = x.v, !.base = x.r.pos])

\* A sub-decoder is at hand when no element decoder it gave out is still in use
Sub(kinds) == wstatus = "run" /\ ~hand /\ Top.kind \in kinds

\* decode_next, decode_entry, decode_field: the shared body
Take(op, phase) ==
    LET f == Top
        n == TakeNext(f.remaining)
    IN  /\ stack' = SetTop(stack, [f EXCEPT !.remaining = n.remaining,
                                            !.returned = @ + (IF n.some THEN 1 ELSE 0),
                                            !.phase = IF n.some THEN phase ELSE "entry"])
        /\ last' = [NoLast EXCEPT !.op = op, !.some = n.some, !.before = f.remaining,
                                  !.hint = SizeHint(n.remaining), !.from = reader.pos]
        /\ UNCHANGED <<reader, wstatus>>
        /\ WireFrame

decode_next ==
    /\ Sub({"sequence"})
    /\ Take("decode_next", "entry")
    /\ hand' = TakeNext(Top.remaining).some

decode_entry ==
    /\ Sub({"map"}) /\ Top.phase = "entry"
    /\ Take("decode_entry", "first")
    /\ hand' = FALSE

decode_field ==
    /\ Sub({"struct"}) /\ Top.phase = "entry"
    /\ Take("decode_field", "first")
    /\ hand' = FALSE

\* decode_key, decode_first: a decoder for the first value of the pair
First(op) ==
    /\ stack' = SetTop(stack, [Top EXCEPT !.phase = "second"])
    /\ hand' = TRUE
    /\ last' = [NoLast EXCEPT !.op = op, !.from = reader.pos]
    /\ UNCHANGED <<reader, wstatus>>
    /\ WireFrame

\* Once the second value of a pair is taken the pair decoder is gone; the pair
\* decoder of a variant is the whole variant decoder
AfterSecond == IF Top.kind = "variant" THEN Pop(stack) ELSE SetTop(stack, [Top EXCEPT !.phase = "entry"])

\* decode_value, decode_second: a decoder for the second value of the pair
Second(op) ==
    /\ stack' = AfterSecond
    /\ hand' = TRUE
    /\ last' = [NoLast EXCEPT !.op = op, !.from = reader.pos]
    /\ UNCHANGED <<reader, wstatus>>
    /\ WireFrame

decode_key == Sub({"map"}) /\ Top.phase = "first" /\ First("decode_key")

decode_value == Sub({"map"}) /\ Top.phase = "second" /\ Second("decode_value")

decode_first == Sub({"struct", "variant"}) /\ Top.phase = "first" /\ First("decode_first")

decode_second == Sub({"struct", "variant"}) /\ Top.phase = "second" /\ Second("decode_second")

skip_second ==
    /\ Sub({"struct", "variant"}) /\ Top.phase = "second"
    /\ \E x \in {SkipAny(input, reader, polL)} :
           /\ reader' = x.r /\ hand' = FALSE
           /\ stack' = AfterSecond
           /\ last' = [Result("skip_second", x) EXCEPT !.some = x.ok]
           /\ wstatus' = Status(x)
           /\ WireFrame

\* PackDecoder::next and one decode_u8 of the StorageDecoder it returns: one raw byte
pack_next ==
    /\ Sub({"pack"})
    /\ \E x \in {ReadByte(input, reader)} :
           /\ reader' = x.r
           /\ last' = [Result("pack_next", x) EXCEPT !.n = x.v, !.base = Top.base,
                                                     !.len = Top.raw,
                                                     !.before = reader.pos - Top.base]
           /\ wstatus' = Status(x)
           /\ UNCHANGED <<stack, hand>>
           /\ WireFrame

\* PackDecoder::finish: Ok(()); the Limit reader is given up
pack_finish ==
    /\ Sub({"pack"})
    /\ reader' = Unlimit(reader)
    /\ stack' = Pop(stack)
    /\ last' = [NoLast EXCEPT !.op = "pack_finish", !.from = reader.pos, !.base = Top.base,
                              !.len = Top.raw, !.before = reader.pos - Top.base]
    /\ UNCHANGED <<hand, wstatus>>
    /\ WireFrame

\* The pack decoder goes out of scope without finish: the Limit reader is given up
drop_pack ==
    /\ Sub({"pack"})
    /\ reader' = Unlimit(reader)
    /\ stack' = Pop(stack)
    /\ last' = [NoLast EXCEPT !.op = "drop_pack", !.from = reader.pos, !.base = Top.base,
                              !.len = Top.raw, !.before = reader.pos - Top.base]
    /\ UNCHANGED <<hand, wstatus>>
    /\ WireFrame

\* A RemainingWireDecoder goes out of scope: nothing is read
drop ==
    /\ Sub({"sequence", "map", "struct", "tuple"}) /\ Top.phase = "entry"
    /\ stack' = Pop(stack)
    /\ last' = [NoLast EXCEPT !.op = "drop", !.from = reader.pos, !.before = Top.remaining]
    /\ UNCHANGED <<reader, hand, wstatus>>
    /\ WireFrame

WireNext ==
    \/ skip_any \/ decode \/ decode_bool \/ decode_u8 \/ decode_i8 \/ decode_unsigned
    \/ decode_i16 \/ decode_bytes \/ decode_string \/ decode_array \/ decode_option
    \/ decode_sequence \/ decode_map \/ decode_struct \/ decode_tuple \/ decode_variant
    \/ decode_pack \/ decode_next \/ decode_entry \/ decode_field \/ decode_key
    \/ decode_value \/ decode_first \/ decode_second \/ skip_second \/ pack_next
    \/ pack_finish \/ drop_pack \/ drop

\* ================================================================ int::tests
\* The round trips of musli-utils/src/int/tests.rs over the 16-bit types: every u16
\* through continuation::encode/decode, every i16 through zigzag::encode/decode
\* and every u16 through zigzag::decode/encode.

\* i16::MIN, i16::MAX and u16::MAX
I16Min == 0 - (Pow256(2) \div 2)
I16Max == (Pow256(2) \div 2) - 1
U16Max == Pow256(2) - 1

IntIdle ==
    /\ rt_test = "idle"
    /\ rt_value = 0
    /\ rt_out = <<>>
    /\ rt_data = [pos |-> 0, lim |-> <<>>]
    /\ rt_got = <<>>
    /\ rt_step = 0

\* rt is entered with a value of the type under test
IntInit ==
    /\ rt_test \in {"continuation", "zigzag", "unzigzag"}
    /\ rt_value \in IF rt_test = "zigzag" THEN I16Min..I16Max ELSE 0..U16Max
    /\ rt_out = <<>>
    /\ rt_data = [pos |-> 0, lim |-> <<>>]
    /\ rt_got = <<>>
    /\ rt_step = 0

\* test_continuation_encoding, rt lines 26-27: c::encode(&cx, &mut out, expected), twice
c_encode ==
    /\ UNCHANGED writerVars
    /\ UNCHANGED phfVars
    /\ UNCHANGED wireVars
    /\ rt_test = "continuation"
    /\ rt_step < 2
    /\ rt_out' = rt_out \o ContinuationEncode(rt_value)
    /\ rt_step' = rt_step + 1
    /\ UNCHANGED <<rt_test, rt_value, rt_data, rt_got>>

\* test_continuation_encoding, rt lines 28-31: c::decode(&cx, &mut data), twice, over
\* the slice of both encodings
c_decode ==
    /\ UNCHANGED writerVars
    /\ UNCHANGED phfVars
    /\ UNCHANGED wireVars
    /\ rt_test = "continuation"
    /\ rt_step \in {2, 3}
    /\ \E x \in {ContinuationDecode(rt_out, rt_data, 16)} :
          /\ rt_got' = Append(rt_got, [ok |-> x.ok, v |-> x.v, e |-> x.e.kind])
          /\ rt_data' = x.r
    /\ rt_step' = rt_step + 1
    /\ UNCHANGED <<rt_test, rt_value, rt_out>>

\* test_zigzag, rt line 85: zig::encode(value); for an unsigned start, the encode of
\* what zig::decode returned
zig_encode ==
    /\ UNCHANGED writerVars
    /\ UNCHANGED phfVars
    /\ UNCHANGED wireVars
    /\ \/ rt_test = "zigzag" /\ rt_step = 0
             /\ rt_got' = <<ZigZagEncode(rt_value, 2)>>
       \/ rt_test = "unzigzag" /\ rt_step = 1
             /\ rt_got' = Append(rt_got, ZigZagEncode(rt_got[1], 2))
    /\ rt_step' = rt_step + 1
    /\ UNCHANGED <<rt_test, rt_value, rt_out, rt_data>>

\* test_zigzag, rt line 86: zig::decode(expected); for an unsigned start, the decode
\* of the start value
zig_decode ==
    /\ UNCHANGED writerVars
    /\ UNCHANGED phfVars
    /\ UNCHANGED wireVars
    /\ \/ rt_test = "zigzag" /\ rt_step = 1
             /\ rt_got' = Append(rt_got, ZigZagDecode(rt_got[1], 2))
       \/ rt_test = "unzigzag" /\ rt_step = 0
             /\ rt_got' = <<ZigZagDecode(rt_value, 2)>>
    /\ rt_step' = rt_step + 1
    /\ UNCHANGED <<rt_test, rt_value, rt_out, rt_data>>

IntNext == c_encode \/ c_decode \/ zig_encode \/ zig_decode

WireStart == WriterIdle /\ PhfIdle /\ WireInit /\ IntIdle
Spec == WireStart /\ [][WireNext]_vars

\* ============================================================ specifications

WriterInit == WriterIdle /\ PhfIdle /\ WireIdle /\ IntIdle

WriterSpec == WriterInit /\ [][WriterNext]_vars

PhfStart == WriterIdle /\ PhfInit /\ WireIdle /\ IntIdle

PhfSpec == PhfStart /\ [][PhfNext]_vars

IntStart == WriterIdle /\ PhfIdle /\ WireIdle /\ IntInit

IntSpec == IntStart /\ [][IntNext]_vars

\* A running generate_hash always takes its next step
PhfFairSpec == PhfSpec /\ WF_vars(PhfNext)

\* ==================================================================== claims

\* ---- C2 (PHF totality)
\* C1: for every policy pair, skip_any called on the decoder standing at the first
\* byte of an encoded value returns Ok and leaves the reader just past the last
\* byte of that value
C1_SkipIdentity ==
    (last.op = "skip_any" /\ last.top) => (last.ok /\ reader.pos = endp)

\* C2: after a successful build over distinct keys, the lookup of every key of the
\* set (displacements[g mod B], displace mod N, map[slot]) returns the index of the
\* entry that holds that key.
C2_LookupFindsKey ==
    looked.valid =>
        /\ looked.found \in 0..(Len(entries) - 1)
        /\ entries[looked.found + 1] = entries[looked.index + 1]

\* ---- C3 (BufferedWriter delivers every byte once, in order)
\* C3: as long as every call so far succeeded at the inner writer, the inner writer
\* holds a prefix of the concatenation of the successfully written slices and the
\* inline buffer holds exactly the rest; after a successful finish the inner writer
\* holds exactly that concatenation.
C3_DeliveredOnceInOrder ==
    ~innerFailed =>
        /\ wphase = "open" => writer \o buf = written
        /\ wphase = "finished" => writer = written
        /\ Len(buf) <= N

\* A finished writer that flushed on the way: more than N bytes went through
C3_Witness ==
    /\ wphase = "finished"
    /\ ~innerFailed
    /\ wres.flushed
    /\ Len(written) > N
    /\ Len(wres.writerBefore) > 0

\* ---- C5 (the map is a bijection on success)
\* C4: for every policy pair, decoding the encoding of a value as its own type
\* yields that value, and the reader has consumed exactly the encoded bytes
C4_RoundTrip ==
    (last.op = "decode" /\ last.sch = value) =>
        (last.ok /\ last.val = value /\ reader.pos = endp)

\* The struct {name: "Jane Doe", age: 42} read back under a fixed I and a varint L,
\* from an input that has bytes before and after it
C4_Witness ==
    /\ last.op = "decode" /\ last.sch = value /\ value = Person
    /\ polI = "fixed_be" /\ polL = "varint" /\ start = 1
    /\ last.ok /\ last.val = Person /\ reader.pos = endp

\* C5: when try_generate_hash returns Some(HashState), no slot of map is the
\* sentinel, every slot holds an entry index in 0..N-1 and every entry index is
\* held by exactly one slot.
C5_MapIsBijection ==
    pc = "done" =>
        /\ Len(map) = Len(entries)
        /\ \A s \in 1..Len(map) : map[s] # UsizeMax /\ map[s] \in 0..(Len(entries) - 1)
        /\ \A e \in 0..(Len(entries) - 1) :
              Cardinality({s \in 1..Len(map) : map[s] = e}) = 1

\* A successful build over two buckets, found by a key after the first candidate
C5_Witness ==
    /\ pc = "done"
    /\ Len(buckets) >= 2
    /\ key # RngKey(0)

\* ---- C7 (build exhaustion and termination)
\* C6: a pack decoder never reads past the n payload bytes of its prefix, and once
\* it is finished or dropped the reader stands at payload start + n
C6_PackBoundary ==
    /\ \A i \in 1..Len(stack) :
           stack[i].kind = "pack" => reader.pos <= stack[i].base + stack[i].raw
    /\ (last.op = "pack_next" /\ last.before >= last.len) => ~last.ok
    /\ last.op \in {"pack_finish", "drop_pack"} => reader.pos = last.base + last.len

HasEqualKeys == \E i, j \in 1..Len(entries) : i # j /\ entries[i] = entries[j]

\* C7: generate_hash always terminates, with a HashState or with FailedPhf; stated
\* for the key sets of the claim's example, those that hold two equal keys.
C7_GenerateHashTerminates == HasEqualKeys => <>(pc \in {"done", "failed"})

\* The struct {a, b, c} as the older type that knows a and b
KnowsAB == StructOf(SubSeq(ABC.x, 1, 4))

\* C8: the struct {a: u32, b: u32, c: u32}, a Sequence of count 6, decoded by the
\* type that knows a and b: decode_struct yields remaining = 3, two pairs are
\* read, the value of the third is passed over with skip_second, decode_field
\* then returns None and the reader stands at the end of the struct's encoding
C8_ForwardCompat ==
    (last.op = "decode" /\ value = ABC /\ last.sch = KnowsAB) =>
        /\ last.ok
        /\ last.obs = [remaining |-> 3, read |-> 2, skipped |-> 1]
        /\ last.val = KnowsAB
        /\ reader.pos = endp

\* ---- C9 (BufferedWriter overflow)
\* The bytes of the slice of the last write call are the stamps handed out last
SliceOfLastCall == {b \in 1..(nextByte - 1) : b >= nextByte - wres.len}

BytesOf(seq) == {seq[i] : i \in 1..Len(seq)}

OverflowOutcome ==
    /\ wres.res = "overflow"
    /\ (BytesOf(writer) \cup BytesOf(buf)) \cap SliceOfLastCall = {}
    /\ writer = wres.writerBefore \o wres.bufBefore
    /\ buf = <<>>

InitialCount(f) == IF f.kind = "sequence" THEN f.raw ELSE f.raw \div 2

RemKinds == {"sequence", "map", "struct", "tuple"}

\* C10: decode_sequence yields remaining = c and decode_map, decode_struct and
\* decode_tuple yield remaining = c / 2 for the raw count c of the tag; each Some of
\* decode_next, decode_entry and decode_field takes one off remaining, None is
\* returned exactly when remaining is 0 and leaves it 0, and size_hint is the number
\* of elements still to be returned
C10_RemainingCounter ==
    /\ \A i \in 1..Len(stack) :
           stack[i].kind \in RemKinds =>
               /\ stack[i].remaining >= 0
               /\ stack[i].remaining = InitialCount(stack[i]) - stack[i].returned
               /\ SizeHint(stack[i].remaining) = InitialCount(stack[i]) - stack[i].returned
    /\ (last.op = "decode_sequence" /\ last.ok) => last.n = last.len
    /\ (last.op \in {"decode_map", "decode_struct", "decode_tuple"} /\ last.ok) =>
           last.n = last.len \div 2
    /\ last.op \in {"decode_next", "decode_entry", "decode_field"} =>
           /\ last.some <=> last.before > 0
           /\ Top.remaining = IF last.some THEN last.before - 1 ELSE 0
           /\ last.hint = Top.remaining

\* A map of two entries, a Sequence of count 4, drained: both entries were returned
\* and decode_entry has answered None
C10_Witness ==
    /\ value.t = "map" /\ Top.kind = "map" /\ Top.raw = 4
    /\ Top.returned = 2 /\ Top.remaining = 0
    /\ last.op = "decode_entry" /\ ~last.some /\ reader.pos = endp

\* What each typed decode expects of the tag byte it reads
TagExpected(op, tag) ==
    CASE op = "decode_u8" -> TagKind(tag) = KindByte
      [] op = "decode_bool" -> tag \in {TagNew(KindByte, 0), TagNew(KindByte, 1)}
      [] op \in {"decode_bytes", "decode_string", "decode_array", "decode_pack"} ->
            TagKind(tag) = KindPrefix
      [] op = "decode_option" -> tag \in {TagNew(KindSequence, 0), TagNew(KindSequence, 1)}
      [] op = "decode_variant" -> tag = TagNew(KindSequence, 2)
      [] OTHER -> TagKind(tag) = KindSequence

TypedOps ==
    {"decode_u8", "decode_bool", "decode_bytes", "decode_string", "decode_array",
     "decode_pack", "decode_option", "decode_sequence", "decode_map", "decode_struct",
     "decode_tuple", "decode_variant"}

MismatchKinds ==
    {"expected_byte", "bad_boolean", "expected_prefix", "expected_option",
     "expected_sequence"}

\* C11: a typed decode whose tag byte is not of the expected kind or pattern returns
\* the mismatch error, has consumed that one byte and no more, and reports as pos
\* the offset of the tag, the reader position after the read less one; a tag that
\* is as expected gives no mismatch error
C11_MismatchPosition ==
    (last.op \in TypedOps /\ last.from < Len(input)) =>
        IF TagExpected(last.op, input[last.from + 1])
        THEN last.e.kind \notin MismatchKinds
        ELSE /\ ~last.ok
             /\ last.e.kind \in MismatchKinds
             /\ reader.pos = last.from + 1
             /\ last.e.pos = last.from
             /\ last.e.pos = reader.pos - 1

\* decode_pack called on a tag that is not a Prefix, at offset 1
C11_Witness ==
    /\ last.op = "decode_pack" /\ last.from = 1 /\ ~last.ok
    /\ TagKind(input[2]) # KindPrefix
    /\ last.e = [kind |-> "expected_prefix", pos |-> 1]
    /\ reader.pos = 2

\* C12: decode_option returns None exactly on the tag byte Tag(Sequence, 0), Some
\* with the decoder standing right after the tag exactly on Tag(Sequence, 1), and
\* ExpectedOption on every other tag byte
C12_OptionMarkers ==
    (last.op = "decode_option" /\ last.from < Len(input)) =>
        CASE input[last.from + 1] = TagNew(KindSequence, 0) ->
                last.ok /\ ~last.some /\ ~hand /\ reader.pos = last.from + 1
          [] input[last.from + 1] = TagNew(KindSequence, 1) ->
                last.ok /\ last.some /\ hand /\ reader.pos = last.from + 1
          [] OTHER ->
                ~last.ok /\ ~last.some /\ last.e.kind = "expected_option"

\* Some(7u8), the bytes Tag(Sequence, 1), Tag(Byte, 7): decode_option answers Some
\* and the decoder in hand stands on the Tag(Byte, 7)
C12_Witness ==
    /\ last.op = "decode_option" /\ last.top /\ last.some /\ hand
    /\ value = OptionOf(<<U8(7)>>)
    /\ input[start + 1] = TagNew(KindSequence, 1)
    /\ reader.pos = start + 1 /\ input[reader.pos + 1] = TagNew(KindByte, 7)

ZigzagPairs ==
    {<<0, 0>>, <<0 - 1, 1>>, <<1, 2>>, <<0 - 2, 3>>, <<2, 4>>,
     <<I16Max, U16Max - 1>>, <<I16Min, U16Max>>}

\* C14: for every signed n of the width, zigzag decode(encode(n)) = n, and for every
\* unsigned u of the width encode(decode(u)) = u; encode(0) = 0, encode(-1) = 1,
\* encode(1) = 2, encode(-2) = 3, encode(2) = 4, encode(MAX) = U::MAX - 1 and
\* encode(MIN) = U::MAX, with decode taking each back; every result is a value of
\* its type, so nothing overflows
C14_ZigzagRoundTrip ==
    /\ (rt_test = "zigzag" /\ rt_step >= 1) =>
           /\ rt_got[1] \in 0..U16Max
           /\ \A pr \in ZigzagPairs : rt_value = pr[1] => rt_got[1] = pr[2]
           /\ rt_got[1] = IF rt_value >= 0 THEN 2 * rt_value ELSE (0 - 2 * rt_value) - 1
    /\ (rt_test = "zigzag" /\ rt_step = 2) => rt_got[2] = rt_value
    /\ (rt_test = "unzigzag" /\ rt_step >= 1) =>
           /\ rt_got[1] \in I16Min..I16Max
           /\ \A pr \in ZigzagPairs : rt_value = pr[2] => rt_got[1] = pr[1]
    /\ (rt_test = "unzigzag" /\ rt_step = 2) => rt_got[2] = rt_value

\* i16::MIN has gone to u16::MAX and back
C14_Witness ==
    /\ rt_test = "zigzag" /\ rt_step = 2
    /\ rt_value = I16Min
    /\ rt_got = <<U16Max, I16Min>>

\* The number of 7-bit groups the value needs
GroupsOf(v) == IF v < 128 THEN 1 ELSE IF v < 128 * 128 THEN 2 ELSE 3

RECURSIVE LittleEndian7(_)
\* The value of a sequence of bytes read as 7-bit groups, least significant first
LittleEndian7(bs) ==
    IF bs = <<>> THEN 0 ELSE (bs[1] % 128) + 128 * LittleEndian7(Tail(bs))

\* bs is the minimal 7-bit little-endian form of v: as many groups as v needs, the
\* flag set on every byte but the last, and the groups spelling v
MinimalForm(bs, v) ==
    /\ Len(bs) = GroupsOf(v)
    /\ \A i \in 1..Len(bs) : bs[i] \in 0..255 /\ (bs[i] >= 128 <=> i < Len(bs))
    /\ LittleEndian7(bs) = v

\* C15: for every value n of the unsigned type, 0, 127, 128 and MAX included,
\* encoding n twice back to back and decoding twice yields n both times and
\* leaves the input empty, each decode consuming exactly its own encoding; the
\* encoding is the minimal 7-bit little-endian form, and that of 1000 is [232, 7]
C15_ContinuationRoundTrip ==
    rt_test = "continuation" =>
        /\ rt_step = 1 => Len(rt_out) = GroupsOf(rt_value)
        /\ rt_step >= 2 => Len(rt_out) = 2 * GroupsOf(rt_value)
        /\ rt_step >= 1 =>
               /\ MinimalForm(SubSeq(rt_out, 1, GroupsOf(rt_value)), rt_value)
               /\ rt_value = 1000 => SubSeq(rt_out, 1, 2) = <<232, 7>>
        /\ rt_step >= 2 =>
               /\ SubSeq(rt_out, GroupsOf(rt_value) + 1, Len(rt_out))
                      = SubSeq(rt_out, 1, GroupsOf(rt_value))
        /\ rt_step >= 3 =>
               /\ rt_got[1] = [ok |-> TRUE, v |-> rt_value, e |-> "none"]
               /\ rt_step = 3 => rt_data.pos = GroupsOf(rt_value)
        /\ rt_step = 4 =>
               /\ rt_got[2] = [ok |-> TRUE, v |-> rt_value, e |-> "none"]
               /\ rt_data.pos = Len(rt_out)

\* u16::MAX has been written twice in three bytes each and read back twice, the
\* input ending with the second decode
C15_Witness ==
    /\ rt_test = "continuation" /\ rt_step = 4
    /\ rt_value = U16Max
    /\ rt_out = <<255, 255, 3, 255, 255, 3>>
    /\ rt_got[1].v = U16Max /\ rt_got[2].v = U16Max
    /\ rt_data.pos = 6

\* The slot of entry k under the pair the search stands at
SlotAt(k) == displace(hashes[k + 1].f1, hashes[k + 1].f2, d1, d2) % Len(hashes)

\* The step is a placement attempt that committed its pair
Committed == pc = "place" /\ (pc' = "done" \/ bucketIdx' = bucketIdx + 1)

\* What C16 asks of one placement attempt
CommitCondition ==
    pc = "place" =>
        /\ Committed =>
              /\ \A i, j \in 1..Len(buckets[bucketIdx]) :
                    i # j => SlotAt(buckets[bucketIdx][i]) # SlotAt(buckets[bucketIdx][j])
              /\ \A i \in 1..Len(buckets[bucketIdx]) :
                    /\ map[SlotAt(buckets[bucketIdx][i]) + 1] = UsizeMax
                    /\ map'[SlotAt(buckets[bucketIdx][i]) + 1] = buckets[bucketIdx][i]
                    /\ try_map'[SlotAt(buckets[bucketIdx][i]) + 1] = generation'
              /\ displacements'[DisplacementSlot(bucketIdx)] = <<d1, d2>>
        /\ ~Committed => map' = map /\ displacements' = displacements
        /\ generation' = generation + 1
        /\ \A s \in 1..Len(try_map) :
              /\ try_map[s] < generation'
              /\ try_map'[s] = generation' =>
                    \E i \in 1..Len(buckets[bucketIdx]) :
                        /\ s = SlotAt(buckets[bucketIdx][i]) + 1
                        /\ map[s] = UsizeMax
              /\ try_map'[s] # generation' => try_map'[s] = try_map[s]
        /\ \A s \in 1..Len(map) : map[s] # UsizeMax => map'[s] = map[s]

\* C16: a pair (d1, d2) is committed for a bucket only if the slots
\* displace(f1, f2, d1, d2) mod N of all entries of the bucket are pairwise
\* distinct and each was still the sentinel in map at that moment; generation is
\* incremented before every attempt, so no slot carries the new generation before
\* the attempt and after it try_map[slot] = generation only for slots the attempt
\* stamped; a map slot once set to an entry index is not overwritten by a later
\* bucket
C16_CommitCondition == [][CommitCondition]_vars

\* The last and largest bucket has been committed under a pair other than (0, 0)
\* after attempts that were given up, its entries on distinct slots
C16_Witness ==
    /\ pc = "done" /\ buckets # <<>>
    /\ Len(buckets[Len(buckets)]) >= 3
    /\ generation > Len(buckets)
    /\ displacements[DisplacementSlot(Len(buckets))] # <<0, 0>>
    /\ \A i \in 1..Len(buckets[Len(buckets)]) :
          \E s \in 1..Len(map) : map[s] = buckets[Len(buckets)][i]

====
